---- MODULE Spec2Model ----
(***************************************************************************)
(* The ReAct loop of AndroidReactAgent (1_LLM_API/main.py) and its two     *)
(* tools, as a state machine.                                              *)
(*                                                                         *)
(* One run of AndroidReactAgent.run is followed through its blocking       *)
(* points: the model round-trip (chat), the handler call of each tool call *)
(* of a batch, and the append of its result.  The model backend, the adb   *)
(* subprocess and the Azure DevOps server are the environment: what they   *)
(* answer is chosen nondeterministically from small sets.                  *)
(***************************************************************************)
EXTENDS Integers, Sequences, FiniteSets, TLC

VARIABLES
    max_iterations, \* self.max_iterations, the agent's attribute
    pc,             \* where the run stands (see PcValues)
    messages,       \* run's local `messages`: the conversation
    iteration,      \* run's local `iteration`
    reply,          \* run's local `response`: response.message of the last chat
    idx,            \* position of `tool_call` in response.message.tool_calls
    result,         \* run's local `result` of the last handler call
    outcome,        \* what run returned, or the exception it raised
    model_calls,    \* history: number of chat(...) calls made by this run
    invoked,        \* history: the handler invocations made by this run
    requests,       \* history: what this run passed to chat(...), call by call
    suspended,      \* the locals of a second run that is in progress
    install_run     \* get_and_install_latest_build followed stage by stage

vars == <<max_iterations, pc, messages, iteration, reply, idx, result,
          outcome, model_calls, invoked, requests, suspended, install_run>>

\* what no step of a run touches: the agent's attribute, the locals of the
\* other run, and the tool that is followed on its own
outside == <<max_iterations, suspended, install_run>>

(***************************************************************************)
(* Bounds of the model.                                                    *)
(***************************************************************************)
\* the values of self.max_iterations that are explored: 0..MaxIterations
MaxIterations == 2
\* the longest tool-call batch the model backend emits
MaxBatch == 2
\* the longest conversation the model backend still answers with tool calls:
\* the assistant message and the results of a batch fit into it
MaxMessages == 7

\* Python's None
None == "<None>"
\* no value bound yet (a local that was not assigned)
Unset == "<unset>"

(***************************************************************************)
(* Python values.  A dict is a function from its keys; the keyword call    *)
(* of line 302 binds the keys of func_args to the parameters of func.      *)
(***************************************************************************)
EmptyDict == [k \in {} |-> None]

Keys(d) == DOMAIN d

\* dict.get(key, default)
Get(d, key, default) == IF key \in DOMAIN d THEN d[key] ELSE default

\* bool(x) of the values that are tested for truth: None and "" are falsy
Truthy(x) == x # None /\ x # ""

(***************************************************************************)
(* TOOL 1: run_adb_command.  `world` is what subprocess.run does: it       *)
(* returns a CompletedProcess or raises (TimeoutExpired after 30 s, or an  *)
(* OSError).                                                               *)
(***************************************************************************)
AdbCompleted(returncode, stdout, stderr) ==
    [kind |-> "completed", returncode |-> returncode,
     stdout |-> stdout, stderr |-> stderr]

AdbRaises(message) == [kind |-> "raises", message |-> message]

AdbWorlds ==
    { AdbCompleted(0, "List of devices attached", ""),
      AdbCompleted(1, "", ""),
      AdbRaises("Command 'adb  devices -l' timed out after 30 seconds") }

run_adb_command(args, world) ==
    IF world.kind = "raises"
    THEN [error |-> "Failed to run command: " \o world.message]
    ELSE [command |-> "adb " \o args.command,
          output  |-> world.stdout,
          error   |-> IF Truthy(world.stderr) THEN world.stderr ELSE None,
          success |-> (world.returncode = 0)]

\* the handler did not do what it was asked to: it raised inside, or the
\* command ended with a non-zero return code
adb_failed(world) == world.kind = "raises" \/ world.returncode # 0

(***************************************************************************)
(* TOOL 2: get_and_install_latest_build.  `world` is what the imports, the *)
(* three requests.get calls, the zip extraction and the adb install do.    *)
(***************************************************************************)
HttpRaises(message) == [kind |-> "raises", message |-> message]

\* a response with its status code; `body` is the dict response.json()
\* parses, NotJson when it raises
HttpResponse(status_code, body) ==
    [kind |-> "response", status_code |-> status_code,
     text |-> "<response text>", body |-> body]

NotJson == [not_json |-> TRUE]

IsJson(body) == "not_json" \notin DOMAIN body

\* `not d.get(key)` of a dict whose value there is a list
Empty(d, key) == key \notin DOMAIN d \/ d[key] = <<>>

StatusOK == HttpResponse(200, NotJson)

\* the parameters of the function and their defaults (lines 43-50)
DefaultArtifactName == "drop"

DefaultBranch == "refs/heads/main"

get_and_install_latest_build(args, world) ==
    LET artifact_name == Get(args, "artifact_name", DefaultArtifactName)
        branch        == Get(args, "branch", DefaultBranch)
        Failed(message) ==
            [error |-> "Failed to download and install: " \o message]
        response      == world.builds
        data          == response.body
        latest_build  == data.value[1]
        build_id      == Get(latest_build, "id", None)
        build_number  == Get(latest_build, "buildNumber", None)
        artifact_response == world.artifact
        artifact_data == artifact_response.body
        download_url  ==
            Get(Get(artifact_data.value[1], "resource", EmptyDict),
                "downloadUrl", None)
        download_response == world.download
        apk_file      == IF world.zip.files = <<>> THEN None
                         ELSE world.zip.files[1]
        install_result == world.install
    IN
    IF ~world.imports
    THEN [error |-> "Missing dependency. Install: pip install requests"]
    \* Step 1: latest successful build of the branch
    ELSE IF response.kind = "raises" THEN Failed(response.message)
    ELSE IF response.status_code # 200
    THEN [error   |-> "Failed to get builds: " \o ToString(response.status_code),
          details |-> response.text]
    ELSE IF ~IsJson(data) THEN Failed("Expecting value")
    ELSE IF Empty(data, "value")
    THEN [error |-> "No successful builds found for branch " \o branch]
    \* Step 2: the artifact's download URL
    ELSE IF artifact_response.kind = "raises"
    THEN Failed(artifact_response.message)
    ELSE IF artifact_response.status_code # 200
    THEN [error        |-> "Failed to get artifact: "
                             \o ToString(artifact_response.status_code),
          build_id     |-> build_id,
          build_number |-> build_number]
    ELSE IF ~IsJson(artifact_data) THEN Failed("Expecting value")
    ELSE IF Empty(artifact_data, "value")
    THEN [error |-> "Artifact '" \o artifact_name
                      \o "' not found in build " \o build_number,
          available_artifacts |-> <<>>]
    ELSE IF ~Truthy(download_url)
    THEN [error |-> "Download URL not found in artifact response"]
    \* Step 3: download
    ELSE IF download_response.kind = "raises"
    THEN Failed(download_response.message)
    ELSE IF download_response.status_code # 200
    THEN [error |-> "Failed to download artifact: "
                      \o ToString(download_response.status_code)]
    \* Step 4: save and extract
    ELSE IF world.zip.kind = "raises" THEN Failed(world.zip.message)
    ELSE IF apk_file = None
    THEN [error        |-> "No APK file found in artifact",
          build_number |-> build_number,
          downloaded   |-> TRUE]
    \* Step 5: install
    ELSE IF install_result.kind = "timeout"
    THEN [error |-> "ADB install timeout - check device connection"]
    ELSE IF install_result.kind = "raises"
    THEN Failed(install_result.message)
    ELSE [success       |-> (install_result.returncode = 0),
          build_id      |-> build_id,
          build_number  |-> build_number,
          branch        |-> branch,
          apk_file      |-> apk_file,
          install_output |-> install_result.stdout,
          install_error |-> IF Truthy(install_result.stderr)
                            THEN install_result.stderr ELSE None,
          web_url       |->
              Get(Get(Get(latest_build, "_links", EmptyDict),
                      "web", EmptyDict), "href", None)]

\* what the servers and the device answer when everything works
BuildsFound ==
    HttpResponse(200, [value |-> <<[id |-> "4711", buildNumber |-> "20240101.1"]>>])

ArtifactFound ==
    HttpResponse(200, [value |-> <<[name |-> "drop",
        resource |-> [downloadUrl |-> "https://artprodcus3/drop.zip"]]>>])

ZipWith(files) == [kind |-> "extracted", files |-> files]

InstallWorld(builds, install) ==
    [imports |-> TRUE, builds |-> builds, artifact |-> ArtifactFound,
     download |-> StatusOK, zip |-> ZipWith(<<"app-release.apk">>),
     install |-> install]

InstallWorlds ==
    { InstallWorld(HttpResponse(200, [value |-> <<>>]),
                   AdbCompleted(0, "Success", "")),
      InstallWorld(BuildsFound, AdbCompleted(0, "Success", "")) }

\* the tool did not install a build
install_failed(world) ==
    LET r == get_and_install_latest_build(EmptyDict, world)
    IN  ~("success" \in DOMAIN r /\ r.success)

(***************************************************************************)
(* TOOL DEFINITIONS: the schemas handed to the model, and the registry.    *)
(***************************************************************************)
tools ==
    << [name       |-> "run_adb_command",
        properties |-> {"command"},
        required   |-> {"command"}],
       [name       |-> "get_and_install_latest_build",
        properties |-> {"organization", "project", "pipeline_id",
                        "pat_token", "artifact_name", "branch"},
        required   |-> {"organization", "project", "pipeline_id",
                        "pat_token"}] >>

\* the keys of the dict available_functions
available_functions == {"run_adb_command", "get_and_install_latest_build"}

\* the parameters of the registered functions, and those without a default
Parameters(name) ==
    IF name = "run_adb_command" THEN {"command"}
    ELSE {"organization", "project", "pipeline_id", "pat_token",
          "artifact_name", "branch"}

Positional(name) ==
    IF name = "run_adb_command" THEN {"command"}
    ELSE {"organization", "project", "pipeline_id", "pat_token"}

\* the keyword call binds: every parameter without a default is given and no
\* keyword is unexpected; Python raises TypeError otherwise
Binds(name, args) ==
    /\ Positional(name) \subseteq Keys(args)
    /\ Keys(args) \subseteq Parameters(name)

\* what the device or the servers may do when the function `name` runs
Worlds(name) ==
    IF name = "run_adb_command" THEN AdbWorlds ELSE InstallWorlds

\* available_functions[name](args), in the world it runs in
Call(name, args, world) ==
    IF name = "run_adb_command" THEN run_adb_command(args, world)
    ELSE get_and_install_latest_build(args, world)

HandlerFailed(name, world) ==
    IF name = "run_adb_command" THEN adb_failed(world)
    ELSE install_failed(world)

\* json.dumps(result) and its inverse: the JSON text of a dict
json_dumps(d) == [json |-> d]

json_loads(text) == text.json

(***************************************************************************)
(* What the model backend may answer.                                      *)
(***************************************************************************)
ToolCall(name, arguments) == [name |-> name, arguments |-> arguments]

InstallArgs ==
    [organization |-> "myorg", project |-> "MyProject",
     pipeline_id |-> "123", pat_token |-> "your_pat_token_here"]

ToolCalls ==
    { ToolCall("run_adb_command", [command |-> "devices -l"]),
      ToolCall("run_adb_command", EmptyDict),
      ToolCall("get_and_install_latest_build", InstallArgs),
      ToolCall("get_and_install_latest_build",
               [organization |-> "myorg", project |-> "MyProject"]),
      ToolCall("reboot_device", EmptyDict) }

SeqsUpTo(S, n) == UNION { [1..k -> S] : k \in 0..n }

\* `tool_calls` of a response: no call at all, or a batch
Batches == SeqsUpTo(ToolCalls, MaxBatch)

Contents == {"", "One device is connected"}

Responses == [content : Contents, tool_calls : Batches]

\* the queries of main()
Queries == {"What devices are connected?"}

(***************************************************************************)
(* The conversation.                                                       *)
(***************************************************************************)
UserMessage(query) == [role |-> "user", content |-> query]

\* response.message, as it is appended on line 292
AssistantMessage(message) ==
    [role |-> "assistant", content |-> message.content,
     tool_calls |-> message.tool_calls]

ToolMessage(res) == [role |-> "tool", content |-> json_dumps(res)]

NoReply == [content |-> "", tool_calls |-> <<>>]

NoResult == EmptyDict

\* no second run is in progress
NoFrame ==
    [pc |-> "idle", messages |-> <<>>, iteration |-> 0, reply |-> NoReply,
     idx |-> 0, result |-> NoResult, outcome |-> Unset, model_calls |-> 0,
     invoked |-> <<>>, requests |-> <<>>]

\* the tool is not followed on its own
NotInstalling == [pc |-> "idle"]

PcValues == {"idle", "awaiting_model", "dispatching", "appending",
             "done", "exhausted", "raised"}

Terminal == {"done", "exhausted", "raised"}

TypeOK ==
    /\ max_iterations \in 0..MaxIterations
    /\ pc \in PcValues
    /\ iteration \in Nat
    /\ model_calls \in Nat
    /\ idx \in 0..(MaxBatch + 1)

(***************************************************************************)
(* AndroidReactAgent.                                                      *)
(***************************************************************************)
\* __init__, and no run started.  max_iterations is an attribute of the
\* agent that run reads at every loop test: the loop is explored for each of
\* its values up to MaxIterations.
Init ==
    /\ max_iterations \in 0..MaxIterations
    /\ pc = "idle"
    /\ messages = <<>>
    /\ iteration = 0
    /\ reply = NoReply
    /\ idx = 0
    /\ result = NoResult
    /\ outcome = Unset
    /\ model_calls = 0
    /\ invoked = <<>>
    /\ requests = <<>>
    /\ suspended = NoFrame
    /\ install_run = NotInstalling

\* run(user_query) is called: lines 273-274
Run(user_query) ==
    /\ pc \in {"idle"} \cup Terminal
    /\ messages' = <<UserMessage(user_query)>>
    /\ iteration' = 0
    /\ pc' = "awaiting_model"
    /\ reply' = NoReply
    /\ idx' = 0
    /\ result' = NoResult
    /\ outcome' = Unset
    /\ model_calls' = 0
    /\ invoked' = <<>>
    /\ requests' = <<>>
    /\ UNCHANGED outside

\* a variant that sends the model only the newest message
ChatRequest_LastMessageOnly(msgs) ==
    [model |-> "gpt-oss:20b", messages |-> <<msgs[Len(msgs)]>>,
     tools |-> tools]

\* lines 284-288: the arguments of chat(...)
ChatRequest(msgs) ==
    [model |-> "gpt-oss:20b", messages |-> msgs, tools |-> tools]

\* a variant that exhausts the budget one iteration early
LoopContinues_OffByOne == iteration + 1 < max_iterations

\* a variant without a budget
LoopContinues_NoBudget == TRUE

\* the loop test of line 280
LoopContinues == iteration < max_iterations

\* line 281
NextIteration(i) == i + 1

\* a variant in which a text in the response wins over its tool calls
HasToolCalls_TextWins(message) ==
    message.tool_calls # <<>> /\ message.content = ""

\* line 290: the truth value of response.message.tool_calls
HasToolCalls(message) == message.tool_calls # <<>>

\* the loop test fails: line 321
Exhausted ==
    /\ pc = "awaiting_model"
    /\ ~LoopContinues
    /\ pc' = "exhausted"
    /\ outcome' = "Error: Max iterations reached"
    /\ UNCHANGED requests
    /\ UNCHANGED <<outside, messages, iteration, reply, idx, result,
                   model_calls, invoked>>

\* a variant that catches the failure of chat and tries again
ModelRaises_Retries ==
    /\ pc = "awaiting_model"
    /\ LoopContinues
    /\ iteration' = NextIteration(iteration)
    /\ model_calls' = model_calls + 1
    /\ requests' = Append(requests, ChatRequest(messages))
    /\ UNCHANGED <<outside, pc, outcome, messages, reply, idx, result,
                   invoked>>

\* lines 281-288, chat raises: the exception leaves run
ModelRaises ==
    /\ pc = "awaiting_model"
    /\ LoopContinues
    /\ iteration' = NextIteration(iteration)
    /\ model_calls' = model_calls + 1
    /\ requests' = Append(requests, ChatRequest(messages))
    /\ pc' = "raised"
    /\ outcome' = "ResponseError"
    /\ UNCHANGED <<outside, messages, reply, idx, result, invoked>>

\* a variant that executes the tool calls without recording the assistant's
\* message first
ModelReturnsToolCalls_NoAppend(message) ==
    /\ pc = "awaiting_model"
    /\ LoopContinues
    /\ HasToolCalls(message)
    /\ Len(messages) + 1 + Len(message.tool_calls) <= MaxMessages
    /\ iteration' = NextIteration(iteration)
    /\ model_calls' = model_calls + 1
    /\ requests' = Append(requests, ChatRequest(messages))
    /\ reply' = message
    /\ idx' = 1
    /\ pc' = "dispatching"
    /\ UNCHANGED <<outside, messages, result, outcome, invoked>>

\* a variant that does not execute the tool calls of the last iteration
ModelReturnsToolCalls_SkipsLast(message) ==
    /\ pc = "awaiting_model"
    /\ LoopContinues
    /\ HasToolCalls(message)
    /\ Len(messages) + 1 + Len(message.tool_calls) <= MaxMessages
    /\ iteration' = NextIteration(iteration)
    /\ model_calls' = model_calls + 1
    /\ requests' = Append(requests, ChatRequest(messages))
    /\ reply' = message
    /\ messages' = Append(messages, AssistantMessage(message))
    /\ IF NextIteration(iteration) < max_iterations
       THEN idx' = 1 /\ pc' = "dispatching"
       ELSE idx' = 0 /\ pc' = "awaiting_model"
    /\ UNCHANGED <<outside, result, outcome, invoked>>

\* lines 281-292, chat answers with tool calls: the assistant message is
\* appended and the for loop of line 295 starts
ModelReturnsToolCalls(message) ==
    /\ pc = "awaiting_model"
    /\ LoopContinues
    /\ HasToolCalls(message)
    /\ Len(messages) + 1 + Len(message.tool_calls) <= MaxMessages
    /\ iteration' = NextIteration(iteration)
    /\ model_calls' = model_calls + 1
    /\ requests' = Append(requests, ChatRequest(messages))
    /\ reply' = message
    /\ messages' = Append(messages, AssistantMessage(message))
    /\ idx' = 1
    /\ pc' = "dispatching"
    /\ UNCHANGED <<outside, result, outcome, invoked>>

\* lines 281-290 and 313-319, chat answers without tool calls
ModelReturnsAnswer(message) ==
    /\ pc = "awaiting_model"
    /\ LoopContinues
    /\ ~HasToolCalls(message)
    /\ iteration' = NextIteration(iteration)
    /\ model_calls' = model_calls + 1
    /\ requests' = Append(requests, ChatRequest(messages))
    /\ reply' = message
    /\ pc' = "done"
    /\ outcome' = message.content
    /\ UNCHANGED <<outside, messages, idx, result, invoked>>

\* the tool call the for loop of line 295 stands at
tool_call == reply.tool_calls[idx]

\* line 301, the name is not a key of available_functions: KeyError
LookupRaises ==
    /\ pc = "dispatching"
    /\ tool_call.name \notin available_functions
    /\ pc' = "raised"
    /\ outcome' = "KeyError"
    /\ UNCHANGED requests
    /\ UNCHANGED <<outside, messages, iteration, reply, idx, result,
                   model_calls, invoked>>

\* line 302, the arguments do not bind to the parameters: TypeError
BindRaises ==
    /\ pc = "dispatching"
    /\ tool_call.name \in available_functions
    /\ ~Binds(tool_call.name, tool_call.arguments)
    /\ pc' = "raised"
    /\ outcome' = "TypeError"
    /\ UNCHANGED requests
    /\ UNCHANGED <<outside, messages, iteration, reply, idx, result,
                   model_calls, invoked>>

\* lines 296-302: the handler runs and returns its dict
Invoke(world) ==
    /\ pc = "dispatching"
    /\ tool_call.name \in available_functions
    /\ Binds(tool_call.name, tool_call.arguments)
    /\ world \in Worlds(tool_call.name)
    /\ result' = Call(tool_call.name, tool_call.arguments, world)
    /\ invoked' = Append(invoked,
           [iteration |-> iteration, index |-> idx,
            call      |-> tool_call,
            failed    |-> HandlerFailed(tool_call.name, world),
            result    |-> Call(tool_call.name, tool_call.arguments, world),
            at        |-> Len(messages)])
    /\ pc' = "appending"
    /\ UNCHANGED requests
    /\ UNCHANGED <<outside, messages, iteration, reply, idx, outcome,
                   model_calls>>

\* a variant that counts every tool result as an iteration
AppendResult_CountsIteration ==
    /\ pc = "appending"
    /\ messages' = Append(messages, ToolMessage(result))
    /\ iteration' = iteration + 1
    /\ IF idx < Len(reply.tool_calls)
       THEN idx' = idx + 1 /\ pc' = "dispatching"
       ELSE idx' = 0 /\ pc' = "awaiting_model"
    /\ UNCHANGED requests
    /\ UNCHANGED <<outside, reply, result, outcome, model_calls,
                   invoked>>

\* a variant that keeps the conversation short by dropping its oldest
\* message once a batch is answered
AppendResult_Trims ==
    /\ pc = "appending"
    /\ IF idx < Len(reply.tool_calls)
       THEN /\ messages' = Append(messages, ToolMessage(result))
            /\ idx' = idx + 1
            /\ pc' = "dispatching"
       ELSE /\ messages' = Append(Tail(messages), ToolMessage(result))
            /\ idx' = 0
            /\ pc' = "awaiting_model"
    /\ UNCHANGED requests
    /\ UNCHANGED <<outside, iteration, reply, result, outcome,
                   model_calls, invoked>>

\* lines 304-311: the result is appended as a tool message; the for loop
\* takes the next tool call, or `continue` goes back to the loop test
AppendResult ==
    /\ pc = "appending"
    /\ messages' = Append(messages, ToolMessage(result))
    /\ IF idx < Len(reply.tool_calls)
       THEN idx' = idx + 1 /\ pc' = "dispatching"
       ELSE idx' = 0 /\ pc' = "awaiting_model"
    /\ UNCHANGED requests
    /\ UNCHANGED <<outside, iteration, reply, result, outcome,
                   model_calls, invoked>>

Next ==
    \/ \E q \in Queries : Run(q)
    \/ Exhausted
    \/ ModelRaises
    \/ \E m \in Responses : ModelReturnsToolCalls(m)
    \/ \E m \in Responses : ModelReturnsAnswer(m)
    \/ LookupRaises
    \/ BindRaises
    \/ \E n \in available_functions : \E w \in Worlds(n) : Invoke(w)
    \/ AppendResult

Spec == Init /\ [][Next]_vars

\* a step of the run that is under way.  run is sequential code: as long as
\* chat and the handlers return, its next statement is executed
RunStep ==
    \/ Exhausted
    \/ ModelRaises
    \/ \E m \in Responses : ModelReturnsToolCalls(m)
    \/ \E m \in Responses : ModelReturnsAnswer(m)
    \/ LookupRaises
    \/ BindRaises
    \/ \E n \in available_functions : \E w \in Worlds(n) : Invoke(w)
    \/ AppendResult

SpecFair == Spec /\ WF_vars(RunStep)

(***************************************************************************)
(* Two runs of one agent.  messages and iteration are local variables of   *)
(* run (lines 273-274), so every invocation of run has its own; the agent  *)
(* object holds model and max_iterations only (lines 268-269).  The run    *)
(* that is executing owns the variables of the loop, the other one is      *)
(* kept in suspended, and Switch passes control from one to the other at   *)
(* any point.                                                              *)
(***************************************************************************)
MaxIterationsInterleaved == 1

InterleavedQueries == Queries \cup {"Install the latest build"}

\* the model asks for at most one tool call per response in these runs
InterleavedResponses == {m \in Responses : Len(m.tool_calls) <= 1}

\* the locals of the run that is executing, with what was observed of it
Locals ==
    [pc |-> pc, messages |-> messages, iteration |-> iteration,
     reply |-> reply, idx |-> idx, result |-> result, outcome |-> outcome,
     model_calls |-> model_calls, invoked |-> invoked, requests |-> requests]

\* a variant in which the conversation and the counter are attributes of
\* the agent, seen by both runs
Switch_SharesConversation ==
    /\ suspended' = Locals
    /\ pc' = suspended.pc
    /\ reply' = suspended.reply
    /\ idx' = suspended.idx
    /\ result' = suspended.result
    /\ outcome' = suspended.outcome
    /\ model_calls' = suspended.model_calls
    /\ invoked' = suspended.invoked
    /\ requests' = suspended.requests
    /\ UNCHANGED <<max_iterations, install_run, messages, iteration>>

\* the other run goes on: each run finds its own frame as it left it
Switch ==
    /\ suspended' = Locals
    /\ pc' = suspended.pc
    /\ messages' = suspended.messages
    /\ iteration' = suspended.iteration
    /\ reply' = suspended.reply
    /\ idx' = suspended.idx
    /\ result' = suspended.result
    /\ outcome' = suspended.outcome
    /\ model_calls' = suspended.model_calls
    /\ invoked' = suspended.invoked
    /\ requests' = suspended.requests
    /\ UNCHANGED <<max_iterations, install_run>>

InitInterleaved ==
    /\ max_iterations \in 1..MaxIterationsInterleaved
    /\ pc = "idle"
    /\ messages = <<>>
    /\ iteration = 0
    /\ reply = NoReply
    /\ idx = 0
    /\ result = NoResult
    /\ outcome = Unset
    /\ model_calls = 0
    /\ invoked = <<>>
    /\ requests = <<>>
    /\ suspended = NoFrame
    /\ install_run = NotInstalling

NextInterleaved ==
    \/ \E q \in InterleavedQueries : Run(q)
    \/ Exhausted
    \/ ModelRaises
    \/ \E m \in InterleavedResponses : ModelReturnsToolCalls(m)
    \/ \E m \in InterleavedResponses : ModelReturnsAnswer(m)
    \/ LookupRaises
    \/ BindRaises
    \/ \E n \in available_functions : \E w \in Worlds(n) : Invoke(w)
    \/ AppendResult
    \/ Switch

SpecInterleaved == InitInterleaved /\ [][NextInterleaved]_vars

(***************************************************************************)
(* get_and_install_latest_build, stage by stage.  install_run holds the    *)
(* stage the function stands at, its arguments, what its external calls    *)
(* will answer, the external calls made so far and the dict it returned.   *)
(***************************************************************************)
BuildsAnswers ==
    { HttpRaises("Connection refused"),
      HttpResponse(500, NotJson),
      HttpResponse(200, NotJson),
      HttpResponse(200, [value |-> <<>>]),
      BuildsFound }

ArtifactAnswers ==
    { HttpRaises("Connection reset"),
      HttpResponse(404, NotJson),
      HttpResponse(200, NotJson),
      HttpResponse(200, [value |-> <<>>]),
      HttpResponse(200, [value |-> <<[name |-> "drop",
                                      resource |-> EmptyDict]>>]),
      ArtifactFound }

DownloadAnswers ==
    { HttpRaises("Read timed out"), HttpResponse(403, NotJson), StatusOK }

ZipAnswers ==
    { [kind |-> "raises", message |-> "File is not a zip file"],
      ZipWith(<<>>),
      ZipWith(<<"app-release.apk">>) }

InstallAnswers ==
    { [kind |-> "timeout"],
      AdbRaises("[Errno 2] No such file or directory"),
      AdbCompleted(1, "", "Failure [INSTALL_FAILED_VERSION_DOWNGRADE]"),
      AdbCompleted(0, "Success", "") }

AllInstallWorlds ==
    [imports : BOOLEAN, builds : BuildsAnswers, artifact : ArtifactAnswers,
     download : DownloadAnswers, zip : ZipAnswers, install : InstallAnswers]

Branches == {DefaultBranch, "refs/heads/develop"}

\* the arguments of the call: branch left to its default, or given
InstallArgSets ==
    { InstallArgs,
      [organization |-> "myorg", project |-> "MyProject",
       pipeline_id |-> "123", pat_token |-> "your_pat_token_here",
       branch |-> "refs/heads/develop"] }

\* the function is entered: nothing is called yet
Entered(args, world) ==
    [pc |-> "imports", args |-> args, world |-> world, calls |-> <<>>,
     result |-> NoResult]

\* `return res`, from the stage that made the external call `call`
Returns(call, res) ==
    install_run' = [install_run EXCEPT !.pc = "returned",
                                       !.calls = Append(@, call),
                                       !.result = res]

\* the stage made the external call `call` and goes on to `stage`
GoesOn(call, stage) ==
    install_run' = [install_run EXCEPT !.pc = stage,
                                       !.calls = Append(@, call)]

\* the generic handler of lines 193-194
FailedToInstall(message) ==
    [error |-> "Failed to download and install: " \o message]

BuildOf(world) == world.builds.body.value[1]

BranchOf(args) == Get(args, "branch", DefaultBranch)

loop_vars == <<max_iterations, pc, messages, iteration, reply, idx, result,
               outcome, model_calls, invoked, requests, suspended>>

\* lines 69-74 and 189-190: the imports
Imports ==
    /\ install_run.pc = "imports"
    /\ IF install_run.world.imports
       THEN install_run' = [install_run EXCEPT !.pc = "builds"]
       ELSE install_run' =
                [install_run EXCEPT
                    !.pc = "returned",
                    !.result = [error |->
                        "Missing dependency. Install: pip install requests"]]
    /\ UNCHANGED loop_vars

\* a variant that goes on to the artifact although no build was found
QueryBuilds_IgnoresEmpty ==
    /\ install_run.pc = "builds"
    /\ LET response == install_run.world.builds
       IN  IF response.kind = "raises"
           THEN Returns("builds", FailedToInstall(response.message))
           ELSE IF response.status_code # 200
           THEN Returns("builds",
                    [error   |-> "Failed to get builds: "
                                 \o ToString(response.status_code),
                     details |-> response.text])
           ELSE IF ~IsJson(response.body)
           THEN Returns("builds", FailedToInstall("Expecting value"))
           ELSE GoesOn("builds", "artifact")
    /\ UNCHANGED loop_vars

\* Step 1, lines 76-107: the latest successful build of the branch
QueryBuilds ==
    /\ install_run.pc = "builds"
    /\ LET response == install_run.world.builds
       IN  IF response.kind = "raises"
           THEN Returns("builds", FailedToInstall(response.message))
           ELSE IF response.status_code # 200
           THEN Returns("builds",
                    [error   |-> "Failed to get builds: "
                                 \o ToString(response.status_code),
                     details |-> response.text])
           ELSE IF ~IsJson(response.body)
           THEN Returns("builds", FailedToInstall("Expecting value"))
           ELSE IF Empty(response.body, "value")
           THEN Returns("builds",
                    [error |-> "No successful builds found for branch "
                               \o BranchOf(install_run.args)])
           ELSE GoesOn("builds", "artifact")
    /\ UNCHANGED loop_vars

\* Step 2, lines 109-133: the artifact's download URL
ResolveArtifact ==
    /\ install_run.pc = "artifact"
    /\ LET artifact_response == install_run.world.artifact
           artifact_data == artifact_response.body
           latest_build  == BuildOf(install_run.world)
           artifact_name == Get(install_run.args, "artifact_name",
                                DefaultArtifactName)
       IN  IF artifact_response.kind = "raises"
           THEN Returns("artifact",
                        FailedToInstall(artifact_response.message))
           ELSE IF artifact_response.status_code # 200
           THEN Returns("artifact",
                    [error |-> "Failed to get artifact: "
                               \o ToString(artifact_response.status_code),
                     build_id     |-> Get(latest_build, "id", None),
                     build_number |-> Get(latest_build, "buildNumber", None)])
           ELSE IF ~IsJson(artifact_data)
           THEN Returns("artifact", FailedToInstall("Expecting value"))
           ELSE IF Empty(artifact_data, "value")
           THEN Returns("artifact",
                    [error |-> "Artifact '" \o artifact_name
                               \o "' not found in build "
                               \o Get(latest_build, "buildNumber", None),
                     available_artifacts |-> <<>>])
           ELSE IF ~Truthy(Get(Get(artifact_data.value[1], "resource",
                                   EmptyDict), "downloadUrl", None))
           THEN Returns("artifact",
                    [error |-> "Download URL not found in artifact response"])
           ELSE GoesOn("artifact", "download")
    /\ UNCHANGED loop_vars

\* Step 3, lines 135-139: the download
Download ==
    /\ install_run.pc = "download"
    /\ LET download_response == install_run.world.download
       IN  IF download_response.kind = "raises"
           THEN Returns("download",
                        FailedToInstall(download_response.message))
           ELSE IF download_response.status_code # 200
           THEN Returns("download",
                    [error |-> "Failed to download artifact: "
                               \o ToString(download_response.status_code)])
           ELSE GoesOn("download", "extract")
    /\ UNCHANGED loop_vars

\* Step 4, lines 141-167: the artifact is saved and extracted, the APK found
Extract ==
    /\ install_run.pc = "extract"
    /\ LET zip == install_run.world.zip
       IN  IF zip.kind = "raises"
           THEN Returns("extract", FailedToInstall(zip.message))
           ELSE IF zip.files = <<>>
           THEN Returns("extract",
                    [error        |-> "No APK file found in artifact",
                     build_number |-> Get(BuildOf(install_run.world),
                                          "buildNumber", None),
                     downloaded   |-> TRUE])
           ELSE GoesOn("extract", "install")
    /\ UNCHANGED loop_vars

\* Step 5, lines 169-187 and 191-194: adb install
InstallApk ==
    /\ install_run.pc = "install"
    /\ LET install_result == install_run.world.install
           latest_build   == BuildOf(install_run.world)
       IN  IF install_result.kind = "timeout"
           THEN Returns("install",
                    [error |->
                        "ADB install timeout - check device connection"])
           ELSE IF install_result.kind = "raises"
           THEN Returns("install", FailedToInstall(install_result.message))
           ELSE Returns("install",
                    [success       |-> (install_result.returncode = 0),
                     build_id      |-> Get(latest_build, "id", None),
                     build_number  |-> Get(latest_build, "buildNumber", None),
                     branch        |-> BranchOf(install_run.args),
                     apk_file      |-> install_run.world.zip.files[1],
                     install_output |-> install_result.stdout,
                     install_error |-> IF Truthy(install_result.stderr)
                                       THEN install_result.stderr ELSE None,
                     web_url       |->
                         Get(Get(Get(latest_build, "_links", EmptyDict),
                                 "web", EmptyDict), "href", None)])
    /\ UNCHANGED loop_vars

\* the tool is called with some arguments, in some world; no run of the
\* agent is under way
InitInstall ==
    /\ max_iterations = MaxIterations
    /\ pc = "idle"
    /\ messages = <<>>
    /\ iteration = 0
    /\ reply = NoReply
    /\ idx = 0
    /\ result = NoResult
    /\ outcome = Unset
    /\ model_calls = 0
    /\ invoked = <<>>
    /\ requests = <<>>
    /\ suspended = NoFrame
    /\ install_run \in
           {Entered(args, world) :
                args \in InstallArgSets, world \in AllInstallWorlds}

NextInstall ==
    \/ Imports
    \/ QueryBuilds
    \/ ResolveArtifact
    \/ Download
    \/ Extract
    \/ InstallApk

SpecInstall == InitInstall /\ [][NextInstall]_vars

(***************************************************************************)
(* Reading the conversation and the history.                               *)
(***************************************************************************)
AssistantIndexes ==
    {p \in 1..Len(messages) : messages[p].role = "assistant"}

ToolIndexes == {p \in 1..Len(messages) : messages[p].role = "tool"}

NumAssistant == Cardinality(AssistantIndexes)

IsPrefix(s, t) == Len(s) <= Len(t) /\ SubSeq(t, 1, Len(s)) = s

\* where the assistant message of the batch in hand stands
BatchAt ==
    CHOOSE p \in AssistantIndexes : \A q \in AssistantIndexes : q <= p

\* a batch is in hand: the last response carried tool calls
InBatch == reply.tool_calls # <<>> /\ NumAssistant = iteration

\* the for loop is past the i-th tool call of the batch in hand, or the run
\* ended at it
Settled(i) ==
    /\ InBatch
    /\ i \in 1..Len(reply.tool_calls)
    /\ \/ idx = 0
       \/ i < idx
       \/ i = idx /\ pc = "raised"

\* the for loop is over for the batch in hand: it ran through, or the run
\* ended in it
BatchOver == InBatch /\ pc \notin {"dispatching", "appending"}

HasAnswer(i) ==
    /\ BatchAt + i <= Len(messages)
    /\ messages[BatchAt + i].role = "tool"

AnswerOf(i) == json_loads(messages[BatchAt + i].content)

\* the invocations of handlers for the i-th tool call of this iteration
InvocationsOf(i) ==
    {k \in 1..Len(invoked) :
        invoked[k].iteration = iteration /\ invoked[k].index = i}

\* a ToolResult that reports a failure: success=false and an error text
ReportsFailure(d) ==
    /\ "success" \in DOMAIN d
    /\ d.success = FALSE
    /\ "error" \in DOMAIN d
    /\ d.error # None

\* the parameters a tool's schema declares required
Required(name) ==
    LET k == CHOOSE k \in 1..Len(tools) : tools[k].name = name
    IN  tools[k].required

Registered(call) == call.name \in available_functions

Satisfying(call) ==
    Registered(call) /\ Required(call.name) \subseteq Keys(call.arguments)

(***************************************************************************)
(* C1.  A tool call whose name is not in the registry is answered: no      *)
(* handler is invoked for it, the run does not raise, and exactly one tool *)
(* message with success=false is appended for it.                          *)
(***************************************************************************)
C1_UnknownToolIsAnswered ==
    \A i \in 1..Len(reply.tool_calls) :
        (Settled(i) /\ ~Registered(reply.tool_calls[i])) =>
            /\ ~(pc = "raised" /\ i = idx)
            /\ InvocationsOf(i) = {}
            /\ HasAnswer(i)
            /\ ReportsFailure(AnswerOf(i))

(***************************************************************************)
(* C2.  Once the for loop is over for a batch of N tool calls, N tool      *)
(* messages follow its assistant message, the i-th being the result of the *)
(* i-th call, whichever calls failed.                                      *)
(***************************************************************************)
C2_BatchFullyAnswered ==
    BatchOver =>
        \A i \in 1..Len(reply.tool_calls) :
            /\ HasAnswer(i)
            /\ \A k \in InvocationsOf(i) :
                   AnswerOf(i) = invoked[k].result

(***************************************************************************)
(* C3.  A run that has ended and whose every model call was answered with  *)
(* a batch of tool calls ended in EXHAUSTED, after exactly max_iterations  *)
(* model calls, returning the fixed message.                               *)
(***************************************************************************)
C3_AlwaysToolCallsExhausts ==
    (pc \in Terminal /\ NumAssistant = model_calls) =>
        /\ pc = "exhausted"
        /\ model_calls = max_iterations
        /\ outcome = "Error: Max iterations reached"

(***************************************************************************)
(* C4.  The iteration counter equals the number of model calls made so     *)
(* far: it is not touched while a batch is dispatched (there it equals the *)
(* number of assistant messages, one per answered model call), and a run   *)
(* whose first response has no tool calls is DONE with the counter at 1    *)
(* after one model call.                                                   *)
(***************************************************************************)
C4_IterationCountsModelCalls ==
    /\ iteration = model_calls
    /\ pc \in {"dispatching", "appending"} => iteration = NumAssistant
    /\ pc = "awaiting_model" => iteration = NumAssistant
    /\ (pc = "done" /\ NumAssistant = 0) =>
           (iteration = 1 /\ model_calls = 1)

\* a run is DONE on its first response
C4_Witness ==
    /\ pc = "done"
    /\ Len(messages) = 1
    /\ iteration = 1

(***************************************************************************)
(* C5.  A tool call of a registered tool that lacks a parameter its schema *)
(* declares required is rejected before the handler: the handler is not    *)
(* invoked, the run does not raise, and a validation-error result is       *)
(* appended as its tool message.                                           *)
(***************************************************************************)
C5_MissingRequiredIsRejected ==
    \A i \in 1..Len(reply.tool_calls) :
        (/\ Settled(i)
         /\ Registered(reply.tool_calls[i])
         /\ ~Satisfying(reply.tool_calls[i])) =>
            /\ ~(pc = "raised" /\ i = idx)
            /\ InvocationsOf(i) = {}
            /\ HasAnswer(i)
            /\ ReportsFailure(AnswerOf(i))

(***************************************************************************)
(* C6.  When a handler fails or reports an error, the tool message that is *)
(* appended for the call carries success=false and an error text.          *)
(***************************************************************************)
C6_HandlerFailureIsReported ==
    \A k \in 1..Len(invoked) :
        (invoked[k].failed /\ Len(messages) > invoked[k].at) =>
            /\ messages[invoked[k].at + 1].role = "tool"
            /\ ReportsFailure(json_loads(messages[invoked[k].at + 1].content))

(***************************************************************************)
(* C7.  When a handler is invoked for the i-th call of a batch, the        *)
(* assistant message of the batch and the results of the calls 1..i-1 are  *)
(* already in the conversation, in this order, and nothing else after      *)
(* them; handlers run in the order of the batch; and a model call is made  *)
(* only when every call of the last batch has its result appended.         *)
(***************************************************************************)
C7_DispatchOrder ==
    /\ \A k \in 1..Len(invoked) :
           LET e == invoked[k]
               p == e.at - e.index + 1
           IN  /\ p \in 1..Len(messages)
               /\ messages[p].role = "assistant"
               /\ e.index <= Len(messages[p].tool_calls)
               /\ messages[p].tool_calls[e.index] = e.call
               /\ \A j \in 1..(e.index - 1) :
                      /\ k - e.index + j >= 1
                      /\ messages[p + j] =
                             ToolMessage(invoked[k - e.index + j].result)
               /\ Len(messages) > e.at =>
                      messages[e.at + 1] = ToolMessage(e.result)
    /\ \A k \in 1..Len(invoked) :
           \/ invoked[k].index = 1
           \/ /\ k > 1
              /\ invoked[k - 1].iteration = invoked[k].iteration
              /\ invoked[k - 1].index = invoked[k].index - 1
    /\ (pc = "awaiting_model" /\ AssistantIndexes # {}) =>
           Len(messages) = BatchAt + Len(messages[BatchAt].tool_calls)

\* a batch of two calls was dispatched and control is back at the loop test
C7_Witness ==
    /\ pc = "awaiting_model"
    /\ Len(invoked) >= 2
    /\ invoked[2].index = 2

(***************************************************************************)
(* C8.  The conversation of a run starts as exactly one user message and   *)
(* every step of the run leaves the conversation before it a prefix of the *)
(* conversation after it.                                                  *)
(***************************************************************************)
C8_AppendOnly ==
    /\ [](pc # "idle" =>
            /\ Len(messages) >= 1
            /\ messages[1].role = "user"
            /\ \A p \in 2..Len(messages) : messages[p].role # "user")
    /\ [][IF pc \in {"idle"} \cup Terminal
          THEN Len(messages') = 1 /\ messages'[1].role = "user"
          ELSE IsPrefix(messages, messages')]_vars

\* a second batch has been answered
C8_Witness ==
    /\ pc = "awaiting_model"
    /\ NumAssistant = 2
    /\ Len(messages) >= 5

(***************************************************************************)
(* C9.  A run is DONE exactly on its first response without tool calls and *)
(* returns that response's text; a response with tool calls never ends the *)
(* run as DONE, whatever text comes with it.                               *)
(***************************************************************************)
C9_DoneOnFirstAnswer ==
    /\ pc = "done" =>
           /\ reply.tool_calls = <<>>
           /\ outcome = reply.content
           /\ NumAssistant = model_calls - 1
    /\ (model_calls > NumAssistant /\ outcome # "ResponseError") =>
           pc = "done"
    /\ (pc \in Terminal /\ pc # "done") =>
           outcome \in {"Error: Max iterations reached", "ResponseError",
                        "KeyError", "TypeError"}

\* DONE on the second response, after a batch that came with a text
C9_Witness ==
    /\ pc = "done"
    /\ model_calls = 2
    /\ messages[2].content # ""
    /\ Len(messages) >= 3

(***************************************************************************)
(* C10.  Once the for loop is over for a batch, every call of it with a    *)
(* registered name and all required arguments had the handler of its name  *)
(* invoked exactly once and has its one tool message: none was skipped or  *)
(* repeated.                                                               *)
(***************************************************************************)
C10_EachCallHandledOnce ==
    BatchOver =>
        \A i \in 1..Len(reply.tool_calls) :
            Satisfying(reply.tool_calls[i]) =>
                /\ Cardinality(InvocationsOf(i)) = 1
                /\ \A k \in InvocationsOf(i) :
                       invoked[k].call = reply.tool_calls[i]
                /\ HasAnswer(i)
                /\ \A k \in InvocationsOf(i) :
                       AnswerOf(i) = invoked[k].result

(***************************************************************************)
(* C11.  get_and_install_latest_build makes its external calls in the      *)
(* order builds, artifact, download, extract, install, and makes none      *)
(* after a stage that failed; the dict it returns names the stage that     *)
(* failed; with an empty list of builds it returns the error 'No           *)
(* successful builds found for branch <branch>' after the builds query     *)
(* alone.                                                                  *)
(***************************************************************************)
StageOrder == <<"builds", "artifact", "download", "extract", "install">>

\* the stage hits a non-200 status or misses what it looks for
StageMisses(stage, world) ==
    LET answer == world[stage]
    IN  IF stage = "builds"
        THEN /\ answer.kind = "response"
             /\ \/ answer.status_code # 200
                \/ IsJson(answer.body) /\ Empty(answer.body, "value")
        ELSE IF stage = "artifact"
        THEN /\ answer.kind = "response"
             /\ \/ answer.status_code # 200
                \/ /\ IsJson(answer.body)
                   /\ \/ Empty(answer.body, "value")
                      \/ "downloadUrl" \notin
                             DOMAIN answer.body.value[1].resource
        ELSE IF stage = "download"
        THEN answer.kind = "response" /\ answer.status_code # 200
        ELSE IF stage = "extract"
        THEN answer.kind = "extracted" /\ answer.files = <<>>
        ELSE answer.kind = "timeout"

\* the external call of the stage raises, or answers what cannot be parsed
StageRaises(stage, world) ==
    LET answer == IF stage = "extract" THEN world.zip ELSE world[stage]
    IN  \/ answer.kind = "raises"
        \/ /\ stage \in {"builds", "artifact"}
           /\ answer.kind = "response"
           /\ answer.status_code = 200
           /\ ~IsJson(answer.body)

WorldOf(run) ==
    [builds |-> run.world.builds, artifact |-> run.world.artifact,
     download |-> run.world.download, extract |-> run.world.zip,
     install |-> run.world.install]

StageFails(stage, run) ==
    StageMisses(stage, WorldOf(run)) \/ StageRaises(stage, run.world)

\* the errors by which the stages report what they miss
StageErrors(stage) ==
    IF stage = "builds"
    THEN {"Failed to get builds: 500"} \cup
         {"No successful builds found for branch " \o b : b \in Branches}
    ELSE IF stage = "artifact"
    THEN {"Failed to get artifact: 404",
          "Artifact 'drop' not found in build 20240101.1",
          "Download URL not found in artifact response"}
    ELSE IF stage = "download"
    THEN {"Failed to download artifact: 403"}
    ELSE IF stage = "extract"
    THEN {"No APK file found in artifact"}
    ELSE {"ADB install timeout - check device connection"}

C11_StagesShortCircuit ==
    LET run == install_run
        n   == Len(run.calls)
    IN  run.pc # "idle" =>
        /\ n <= Len(StageOrder)
        /\ run.calls = SubSeq(StageOrder, 1, n)
        /\ \A j \in 1..(n - 1) : ~StageFails(StageOrder[j], run)
        /\ \A s, t \in 1..Len(StageOrder) :
               s # t => StageErrors(StageOrder[s]) \cap
                        StageErrors(StageOrder[t]) = {}
        /\ run.pc = "returned" =>
            /\ run.result = get_and_install_latest_build(run.args, run.world)
            /\ n < Len(StageOrder) => "error" \in DOMAIN run.result
            /\ n >= 1 =>
                   (StageFails(StageOrder[n], run) <=>
                        "error" \in DOMAIN run.result)
            /\ (n >= 1 /\ StageMisses(StageOrder[n], WorldOf(run))) =>
                   run.result.error \in StageErrors(StageOrder[n])
            /\ (/\ run.world.imports
                /\ run.world.builds = HttpResponse(200, [value |-> <<>>])) =>
                   /\ run.calls = <<"builds">>
                   /\ run.result =
                          [error |-> "No successful builds found for branch "
                                     \o BranchOf(run.args)]

\* no build on the branch that was asked for: the function returned after
\* the builds query
C11_Witness ==
    /\ install_run.pc = "returned"
    /\ install_run.calls = <<"builds">>
    /\ install_run.result =
           [error |->
               "No successful builds found for branch refs/heads/develop"]

(***************************************************************************)
(* C12.  Once a chat call of a run has failed, the run has ended by        *)
(* raising: it returned neither an answer nor the exhaustion message, and  *)
(* the only step that follows is the start of another run, so no model     *)
(* call is retried, no handler is invoked and nothing is appended.         *)
(***************************************************************************)
\* a chat call of this run was not answered
ModelFailed ==
    model_calls > NumAssistant + (IF pc = "done" THEN 1 ELSE 0)

C12_ModelFailureIsFatal ==
    /\ [](ModelFailed =>
            /\ pc = "raised"
            /\ outcome \notin Contents \cup {"Error: Max iterations reached"})
    /\ [][ModelFailed =>
            /\ pc' = "awaiting_model"
            /\ model_calls' = 0
            /\ invoked' = <<>>
            /\ Len(messages') = 1]_vars

\* the second chat call of a run failed
C12_Witness ==
    /\ ModelFailed
    /\ pc = "raised"
    /\ model_calls = 2
    /\ Len(invoked) >= 1

(***************************************************************************)
(* C13.  Every chat call of a run was passed the whole conversation as it  *)
(* stood then - the seed and everything appended before the call, in       *)
(* order - and the same tool catalog.                                      *)
(***************************************************************************)
\* where the k-th assistant message stands
AssistantAt(k) ==
    CHOOSE p \in AssistantIndexes :
        Cardinality({q \in AssistantIndexes : q <= p}) = k

\* the length of the conversation when the k-th chat call was made
LengthAtCall(k) ==
    IF k <= NumAssistant THEN AssistantAt(k) - 1 ELSE Len(messages)

C13_FullConversationSubmitted ==
    /\ Len(requests) = model_calls
    /\ \A k \in 1..Len(requests) :
           /\ requests[k].messages = SubSeq(messages, 1, LengthAtCall(k))
           /\ requests[k].messages[1] = messages[1]
           /\ requests[k].tools = tools
           /\ requests[k].tools = requests[1].tools
           /\ requests[k].model = requests[1].model

\* the second chat call saw the seed, the assistant message and a result
C13_Witness ==
    /\ Len(requests) = 2
    /\ Len(requests[2].messages) >= 3
    /\ requests[2].messages[3].role = "tool"

(***************************************************************************)
(* C14.  Each run of an agent has its own conversation and its own         *)
(* counter, whether the runs follow one another or are interleaved: a run  *)
(* starts from its single user message and counter 0, its first chat call  *)
(* is passed exactly that message, every later call is passed a prefix of  *)
(* its own conversation, its counter counts its own chat calls, its        *)
(* conversation holds no other user message and no result but those of     *)
(* its own invocations, and a step of one run leaves the other run's       *)
(* state as it was.                                                        *)
(***************************************************************************)
OwnsItsState(f) ==
    /\ f.pc # "idle" =>
           /\ Len(f.messages) >= 1
           /\ f.messages[1].role = "user"
           /\ {p \in 1..Len(f.messages) : f.messages[p].role = "user"} = {1}
    /\ (f.pc = "awaiting_model" /\ f.model_calls = 0) =>
           /\ f.iteration = 0
           /\ Len(f.messages) = 1
    /\ f.requests # <<>> => f.requests[1].messages = <<f.messages[1]>>
    /\ \A k \in 1..Len(f.requests) :
           IsPrefix(f.requests[k].messages, f.messages)
    /\ f.iteration = f.model_calls
    /\ f.iteration = Len(f.requests)
    /\ \A p \in 1..Len(f.messages) :
           f.messages[p].role = "tool" =>
               \E k \in 1..Len(f.invoked) :
                   f.messages[p] = ToolMessage(f.invoked[k].result)

C14_RunsOwnTheirState ==
    /\ [](OwnsItsState(Locals) /\ OwnsItsState(suspended))
    /\ [][\/ suspended' = suspended
          \/ suspended' = Locals /\ Locals' = suspended]_vars
    /\ [][(/\ suspended' = suspended
            /\ pc \in {"idle"} \cup Terminal
            /\ pc' = "awaiting_model") =>
             /\ Len(messages') = 1
             /\ messages'[1].role = "user"
             /\ iteration' = 0
             /\ requests' = <<>>]_vars

\* two runs with different queries are in progress, each after its first
\* chat call
C14_Witness ==
    /\ pc \in {"dispatching", "appending"}
    /\ suspended.pc \in {"dispatching", "appending"}
    /\ messages[1] # suspended.messages[1]
    /\ Len(requests) = 1
    /\ Len(suspended.requests) = 1
    /\ requests[1].messages = <<messages[1]>>
    /\ suspended.requests[1].messages = <<suspended.messages[1]>>

(***************************************************************************)
(* C15.  A step of a run takes the controller from AWAITING_MODEL to       *)
(* DISPATCHING_TOOLS, DONE or EXHAUSTED, or from DISPATCHING_TOOLS on to   *)
(* its next tool call or back to AWAITING_MODEL, or ends the run by an     *)
(* exception; after DONE and EXHAUSTED nothing follows but the start of    *)
(* another run; EXHAUSTED is entered only from AWAITING_MODEL with the     *)
(* counter at max_iterations, and changes nothing else.                    *)
(***************************************************************************)
Dispatching == {"dispatching", "appending"}

C15_ControllerTransitions ==
    /\ [][\/ /\ pc \in {"idle"} \cup Terminal
             /\ pc' = "awaiting_model"
             /\ model_calls' = 0
             /\ invoked' = <<>>
             /\ Len(messages') = 1
          \/ /\ pc = "awaiting_model"
             /\ pc' \in Dispatching \cup Terminal
          \/ /\ pc \in Dispatching
             /\ pc' \in Dispatching \cup {"awaiting_model", "raised"}]_vars
    /\ [][pc' = "exhausted" =>
             /\ pc = "awaiting_model"
             /\ iteration = max_iterations
             /\ UNCHANGED <<messages, iteration, model_calls, invoked>>]_vars
    /\ [][pc' = "done" => pc = "awaiting_model"]_vars
    /\ [](pc = "exhausted" =>
             /\ iteration = max_iterations
             /\ NumAssistant = model_calls)

\* EXHAUSTED after two batches
C15_Witness ==
    /\ pc = "exhausted"
    /\ max_iterations = 2
    /\ NumAssistant = 2

(***************************************************************************)
(* C16.  A response with neither tool calls nor text does not end the run  *)
(* as a successful answer: DONE is never reached with an empty text as the *)
(* result.                                                                 *)
(***************************************************************************)
C16_EmptyResponseIsAnError ==
    pc = "done" => outcome \notin {"", None}

(***************************************************************************)
(* C17.  A run makes at most max_iterations model calls and, as long as    *)
(* its calls return, ends in DONE, in EXHAUSTED or by an exception; with   *)
(* max_iterations = 0 it returns the exhaustion message without a model    *)
(* call.                                                                   *)
(***************************************************************************)
C17_RunTerminates ==
    /\ [](model_calls <= max_iterations)
    /\ []((max_iterations = 0 /\ pc \in Terminal) =>
            /\ pc = "exhausted"
            /\ outcome = "Error: Max iterations reached"
            /\ model_calls = 0)
    /\ []<>(pc \in {"idle"} \cup Terminal)

\* no budget at all: EXHAUSTED without a model call
C17_Witness ==
    /\ pc = "exhausted"
    /\ max_iterations = 0
    /\ model_calls = 0
    /\ requests = <<>>

(***************************************************************************)
(* C18.  A run that ended in EXHAUSTED dispatched the batch of its last    *)
(* iteration in full: max_iterations batches were answered, every call of  *)
(* the last one had its handler invoked and its result appended, and no    *)
(* chat call was passed these results.                                     *)
(***************************************************************************)
LastBatchDispatched ==
    LET p == BatchAt
        N == Len(messages[p].tool_calls)
    IN  /\ Len(messages) = p + N
        /\ \A i \in 1..N :
               \E k \in 1..Len(invoked) :
                   /\ invoked[k].iteration = max_iterations
                   /\ invoked[k].index = i
                   /\ invoked[k].call = messages[p].tool_calls[i]
                   /\ messages[p + i] = ToolMessage(invoked[k].result)
        /\ \A k \in 1..Len(requests) : Len(requests[k].messages) < p

C18_LastBatchIsDispatched ==
    /\ (pc = "exhausted" /\ max_iterations > 0) =>
           /\ NumAssistant = max_iterations
           /\ model_calls = max_iterations
           /\ LastBatchDispatched
    /\ (pc \in Dispatching /\ iteration = max_iterations) =>
           /\ NumAssistant = max_iterations
           /\ idx \in 1..Len(reply.tool_calls)

\* EXHAUSTED after a last batch of two calls
C18_Witness ==
    /\ pc = "exhausted"
    /\ max_iterations = 2
    /\ Len(invoked) >= 3
    /\ invoked[Len(invoked)].iteration = 2
    /\ invoked[Len(invoked)].index = 2

====
